---- MODULE Spec2Model ----
(***************************************************************************)
(* node-inertiajs: the prop-resolution and page-object engine of the       *)
(* Inertia class (inertia.ts), over the Adapter's request headers.         *)
(*                                                                         *)
(* Strings that the code splits (the comma-separated headers) are tuples   *)
(* of one-character strings, so that String.split and filter(Boolean) are *)
(* computed.  Prop keys are such tuples too (a header token is compared    *)
(* with a key).  A JavaScript object is the sequence of its own            *)
(* enumerable entries in insertion order, which is the order of            *)
(* Object.entries and of the object spread.                                *)
(***************************************************************************)
EXTENDS Integers, Sequences, FiniteSets, TLC

(* ------------------------------ bounds -------------------------------- *)

\* longest value of a comma-separated request header, in characters
MaxHdrLen == 2

\* most share() calls made on one Inertia instance
MaxShares == 2

\* location() calls made on one instance
MaxLocations == 2

\* render calls on one instance that reach the adapter's json or html
MaxRenders == 2

\* set() calls made on the Flash messages of one session
MaxSets == 3

(* --------------------------- strings, keys ---------------------------- *)

Comma == ","

Chars == {"a", "b", Comma}

Strings(n) == UNION {[1..k -> Chars] : k \in 0..n}

\* the keys that shared data and per-call props are declared under
Keys == {<<"a">>, <<"b">>}

\* String.prototype.split(",") of s: the pieces between the commas
RECURSIVE Split(_)
Split(s) ==
  IF \A i \in 1..Len(s) : s[i] # Comma
    THEN <<s>>
    ELSE LET i == CHOOSE j \in 1..Len(s) :
                    s[j] = Comma /\ \A h \in 1..(j - 1) : s[h] # Comma
         IN  <<SubSeq(s, 1, i - 1)>> \o Split(SubSeq(s, i + 1, Len(s)))

\* Array.prototype.filter(Boolean) on strings: the empty string is falsy
FilterBoolean(tokens) == SelectSeq(tokens, LAMBDA t : t # <<>>)

Range(seq) == {seq[i] : i \in 1..Len(seq)}

(* ------------------------------ values -------------------------------- *)

\* One shape for every JavaScript value a prop can hold:
\*   kind        "data" | "function" | "undefined" | a wrapper class name
\*   val         the data itself, or what the callback / function yields
\*   group       DeferProp's group
\*   shouldMerge MergeableProp's flag
\*   returns     for a plain function, the kind of the value it returns
Value(kind, val, group, shouldMerge, returns) ==
  [kind |-> kind, val |-> val, group |-> group,
   shouldMerge |-> shouldMerge, returns |-> returns]

Undefined == Value("undefined", "", "", FALSE, "")

Data(v) == Value("data", v, "", FALSE, "")

\* a plain function of (request, response) that returns the data v
Fn(v) == Value("function", v, "", FALSE, "data")

\* a plain function of (request, response) that returns optional(() => v)
FnOptional(v) == Value("function", v, "", FALSE, "OptionalProp")

DefaultGroup == "default"

NoGroup == ""

\* Inertia.lazy / Inertia.optional
optional(v) == Value("OptionalProp", v, "", FALSE, "")

\* Inertia.merge: a MergeProp is created with its merge flag set
merge(v) == Value("MergeProp", v, "", TRUE, "")

\* a MergeProp whose merge flag is not set
UnflaggedMerge(v) == Value("MergeProp", v, "", FALSE, "")

\* Inertia.always
always(v) == Value("AlwaysProp", v, "", FALSE, "")

\* Inertia.defer(callback, group = "default"); NoGroup is the omitted argument
defer(v, group) ==
  Value("DeferProp", v, IF group = NoGroup THEN DefaultGroup ELSE group, FALSE, "")

\* value[ignoreFirstLoadSymbol]: set by OptionalProp and DeferProp
IgnoreFirstLoad(value) == value.kind \in {"OptionalProp", "DeferProp"}

\* value instanceof MergeableProp
IsMergeable(value) == value.kind = "MergeProp"

\* the classes #resolveProp unwraps
IsWrapper(value) ==
  value.kind \in {"OptionalProp", "MergeProp", "DeferProp", "AlwaysProp"}

(* ------------------------------ objects ------------------------------- *)

Entry(k, v) == [key |-> k, value |-> v]

ObjKeys(obj) == {obj[i].key : i \in 1..Len(obj)}

Has(obj, k) == k \in ObjKeys(obj)

IndexOf(obj, k) == CHOOSE i \in 1..Len(obj) : obj[i].key = k

\* obj[k]: undefined for a key the object does not own
Get(obj, k) == IF Has(obj, k) THEN obj[IndexOf(obj, k)].value ELSE Undefined

\* obj[k] = v: an owned key keeps its place, a new key goes last
Put(obj, k, v) ==
  IF Has(obj, k)
    THEN [obj EXCEPT ![IndexOf(obj, k)] = Entry(k, v)]
    ELSE Append(obj, Entry(k, v))

\* delete obj[k]
Delete(obj, k) == SelectSeq(obj, LAMBDA e : e.key # k)

\* { ...a, ...b }
RECURSIVE ObjectSpread(_, _)
ObjectSpread(a, b) ==
  IF b = <<>> THEN a
  ELSE ObjectSpread(Put(a, Head(b).key, Head(b).value), Tail(b))

(* --------------------------- request headers -------------------------- *)

NoHeader == [present |-> FALSE, value |-> <<>>]

Header(s) == [present |-> TRUE, value |-> s]

\* the partial-component header carries a component name
NoComponentHeader == [present |-> FALSE, value |-> ""]

ComponentHeader(c) == [present |-> TRUE, value |-> c]

\* if (header): undefined and the empty string are falsy
Truthy(h) == h.present /\ h.value # <<>>

(* ------------------------------ Inertia ------------------------------- *)

\* #isPartial gone wrong: any partial-component header makes the request partial
IsPartialAnyComponent(req, comp) == req.partialComponent.present

\* #isPartial: the partial-component header === component
IsPartial(req, comp) ==
  req.partialComponent.present /\ req.partialComponent.value = comp

\* for (const key of only) newProps[key] = props[key]
RECURSIVE CopyKeys(_, _, _)
CopyKeys(newProps, only, props) ==
  IF only = <<>> THEN newProps
  ELSE CopyKeys(Put(newProps, Head(only), Get(props, Head(only))), Tail(only), props)

\* #resolveOnly gone wrong: copies only the keys that props owns
ResolveOnlyOwned(req, props) ==
  CopyKeys(<<>>,
           SelectSeq(FilterBoolean(Split(req.partialOnly.value)), LAMBDA k : Has(props, k)),
           props)

\* #resolveOnly: a new object holding the keys of the partial-data header
ResolveOnly(req, props) ==
  CopyKeys(<<>>, FilterBoolean(Split(req.partialOnly.value)), props)

\* for (const key of except) delete props[key]
RECURSIVE DeleteKeys(_, _)
DeleteKeys(props, except) ==
  IF except = <<>> THEN props
  ELSE DeleteKeys(Delete(props, Head(except)), Tail(except))

\* #resolveExcept: deletes, in the object it is given, the keys of the
\* partial-except header
ResolveExcept(req, props) ==
  DeleteKeys(props, FilterBoolean(Split(req.partialExcept.value)))

\* the first-load filter gone wrong: nothing is dropped
FirstLoadKeepAll(props) == props

\* the filter of the first load: entries marked ignoreFirstLoad are dropped
FirstLoadProps(props) == SelectSeq(props, LAMBDA e : ~IgnoreFirstLoad(e.value))

\* for (const [key, value] of Object.entries(props))
\*   if (value instanceof AlwaysProp) newProps[key] = props[key]
RECURSIVE ForceAlways(_, _, _)
ForceAlways(newProps, entries, props) ==
  IF entries = <<>> THEN newProps
  ELSE ForceAlways(
         IF Head(entries).value.kind = "AlwaysProp"
           THEN Put(newProps, Head(entries).key, Get(props, Head(entries).key))
           ELSE newProps,
         Tail(entries), props)

\* #pickPropsToResolve gone wrong: the except list is applied before the only
\* list, which then copies the excepted keys back
PickExceptFirst(req, comp, props) ==
  LET isPartial   == IsPartial(req, comp)
      useOnly     == isPartial /\ Truthy(req.partialOnly)
      useExcept   == isPartial /\ Truthy(req.partialExcept)
      afterFirst  == IF ~isPartial THEN FirstLoadProps(props) ELSE props
      afterExcept == IF useExcept THEN ResolveExcept(req, afterFirst) ELSE afterFirst
      afterOnly   == IF useOnly THEN ResolveOnly(req, props) ELSE afterExcept
  IN  ForceAlways(afterOnly, props, props)

\* #pickPropsToResolve.  newProps starts as props itself; only the first-load
\* filter and #resolveOnly replace it by a new object, so a partial request
\* without a partial-data header hands props itself to #resolveExcept, whose
\* deletions then show in props when the final loop reads it.
PickPropsToResolve(req, comp, props) ==
  LET isPartial   == IsPartial(req, comp)
      useOnly     == isPartial /\ Truthy(req.partialOnly)
      useExcept   == isPartial /\ Truthy(req.partialExcept)
      afterFirst  == IF ~isPartial THEN FirstLoadProps(props) ELSE props
      afterOnly   == IF useOnly THEN ResolveOnly(req, props) ELSE afterFirst
      afterExcept == IF useExcept THEN ResolveExcept(req, afterOnly) ELSE afterOnly
      sameObject  == isPartial /\ ~useOnly
      propsNow    == IF sameObject THEN afterExcept ELSE props
  IN  ForceAlways(afterExcept, propsNow, propsNow)

\* what the call of a plain function prop returns
CallResult(value) == Value(value.returns, value.val, "", FALSE, "")

\* #resolveProp: a wrapper resolves to what its callback yields
ResolveProp(value) == IF IsWrapper(value) THEN Data(value.val) ELSE value

\* one entry of #resolvePageProps: a plain function is called first
ResolveEntry(value) ==
  IF value.kind = "function" THEN ResolveProp(CallResult(value))
  ELSE ResolveProp(value)

\* #resolvePageProps: Promise.all and Object.fromEntries keep the entry order
ResolvePageProps(props) ==
  [i \in 1..Len(props) |-> Entry(props[i].key, ResolveEntry(props[i].value))]

\* the keys whose plain function or wrapper callback #resolvePageProps invokes
CallbacksInvoked(props) ==
  {props[i].key : i \in {j \in 1..Len(props) :
      props[j].value.kind = "function" \/ IsWrapper(props[j].value)}}

\* an optional field of the page object
Omitted == [present |-> FALSE, value |-> <<>>]

Field(v) == [present |-> TRUE, value |-> v]

\* groups[group], with the empty list the reducer creates when it is missing
GroupKeys(groups, group) ==
  IF Has(groups, group) THEN groups[IndexOf(groups, group)].value ELSE <<>>

\* the reduce gone wrong: a key is put in front of its group's list
RECURSIVE GroupDeferredFront(_, _)
GroupDeferredFront(groups, entries) ==
  IF entries = <<>> THEN groups
  ELSE LET e == Head(entries)
       IN  GroupDeferredFront(
             Put(groups, e.value.group, <<e.key>> \o GroupKeys(groups, e.value.group)),
             Tail(entries))

\* the reduce of #resolveDeferredProps over the DeferProp entries
RECURSIVE GroupDeferred(_, _)
GroupDeferred(groups, entries) ==
  IF entries = <<>> THEN groups
  ELSE LET e == Head(entries)
       IN  GroupDeferred(
             Put(groups, e.value.group, Append(GroupKeys(groups, e.value.group), e.key)),
             Tail(entries))

\* #resolveDeferredProps
ResolveDeferredProps(req, comp, pageProps) ==
  IF IsPartial(req, comp) THEN Omitted
  ELSE LET deferredProps ==
             GroupDeferred(<<>>, SelectSeq(pageProps, LAMBDA e : e.value.kind = "DeferProp"))
       IN  IF Len(deferredProps) > 0 THEN Field(deferredProps) ELSE Omitted

\* #resolveMergeProps gone wrong: the reset header is not read
ResolveMergePropsNoReset(req, pageProps) ==
  LET mergeable  == SelectSeq(pageProps,
                      LAMBDA e : IsMergeable(e.value) /\ e.value.shouldMerge)
      mergeProps == [i \in 1..Len(mergeable) |-> mergeable[i].key]
  IN  IF Len(mergeProps) > 0 THEN Field(mergeProps) ELSE Omitted

\* #resolveMergeProps
ResolveMergeProps(req, pageProps) ==
  LET inertiaResetHeader == IF Truthy(req.reset) THEN req.reset.value ELSE <<>>
      resetProps == Range(FilterBoolean(Split(inertiaResetHeader)))
      mergeable  == SelectSeq(pageProps,
                      LAMBDA e : IsMergeable(e.value) /\ e.value.shouldMerge)
      keys       == [i \in 1..Len(mergeable) |-> mergeable[i].key]
      mergeProps == SelectSeq(keys, LAMBDA k : k \notin resetProps)
  IN  IF Len(mergeProps) > 0 THEN Field(mergeProps) ELSE Omitted

\* the spread gone wrong: { ...pageProps, ...sharedData }
MergedPropsSharedLast(shared, pageProps) == ObjectSpread(pageProps, shared)

\* the candidate prop set of a render call: { ...sharedData, ...pageProps }
MergedProps(shared, pageProps) == ObjectSpread(shared, pageProps)

\* this.adapter.getUrl() || "/"
Url(req) == IF req.url = "" THEN "/" ELSE req.url

\* #buildPageObject
BuildPageObject(req, cfg, shared, clear, encrypt, comp, pageProps) ==
  LET picked == PickPropsToResolve(req, comp, MergedProps(shared, pageProps))
  IN  [component      |-> comp,
       url            |-> Url(req),
       version        |-> cfg.assetsVersion,
       props          |-> ResolvePageProps(picked),
       clearHistory   |-> clear,
       encryptHistory |-> encrypt,
       mergeProps     |-> ResolveMergeProps(req, pageProps),
       deferredProps  |-> ResolveDeferredProps(req, comp, pageProps)]

(* ------------------------------- state -------------------------------- *)

VARIABLES
  request,               \* the headers and URL of the request the adapter wraps
  config,                \* the ResolvedConfig the instance was constructed with
  sharedData,            \* #sharedData
  shareLog,              \* the arguments of the share() calls made so far
  shouldClearHistory,    \* #shouldClearHistory
  shouldEncryptHistory,  \* #shouldEncryptHistory
  component,             \* first argument of the last render call
  pageProps,             \* second argument of the last render call
  propsToResolve,        \* what #pickPropsToResolve returned in that call
  invoked,               \* keys whose callback or function that call invoked
  pageObject,            \* the page object that call built
  responseEnded,         \* the adapter has ended the response
  lastOp,                \* the operation performed last
  callArgs,              \* the arguments of the last redirect or location call
  adapterCalls,          \* the calls made on the adapter's writing methods, in order
  response,              \* the writes made on the ServerResponse, in order
  outcome,               \* how the last call ended: returned, or threw an error
  ssr,                   \* what the server renderer returned to the last render call
  template,              \* the layout the last render call resolved
  pc,                    \* where a render call taken step by step stands
  candidates,            \* the merged object that call handed to #pickPropsToResolve
  tasks,                 \* the state of each promise that call gave to Promise.all
  settleOrder,           \* the keys of those promises, in the order they settled
  sharesSeen,            \* how many share() calls had been made when that call started
  flagsSeen,             \* the history flags as they were when that call started
  clearRequested,        \* clearHistory() was called since the last render call ended
  flash,                 \* req.session.flash, the store of the Flash messages
  flashSets,             \* how many set() calls were made on the session
  flashLast,             \* the last Flash call and what it returned
  flashDelivered,        \* the stored values get() and all() returned, in order
  flashGone              \* the keys taken by get(), all() or clear() and not set since

\* the instance and what the last render call computed
renderVars == <<component, pageProps, propsToResolve, invoked, pageObject>>

\* the response and what was done to it
responseVars == <<responseEnded, adapterCalls, response>>

\* the renderer's output and the layout of the last render call
viewVars == <<ssr, template>>

\* a render call taken step by step
asyncVars == <<pc, candidates, tasks, settleOrder, sharesSeen>>

\* what is remembered of the calls that set the history flags
historyVars == <<flagsSeen, clearRequested>>

\* the Inertia instance and its response
inertiaVars == <<request, config, sharedData, shareLog, shouldClearHistory,
                 shouldEncryptHistory, renderVars, responseVars, lastOp, callArgs,
                 outcome, viewVars, asyncVars, historyVars>>

\* the Flash messages of the session
flashVars == <<flash, flashSets, flashLast, flashDelivered, flashGone>>

vars == <<inertiaVars, flashVars>>

Components == {"Home"}

\* values of the partial-component header: absent, the rendered component,
\* another component
ComponentHeaders ==
  {NoComponentHeader, ComponentHeader("Home"), ComponentHeader("Users")}

\* the value the client library gives the protocol marker header
InertiaTrue == <<"t", "r", "u", "e">>

\* request.method of the requests handled; "" stands for undefined
Methods == {"", "GET", "HEAD", "POST", "PUT", "PATCH", "DELETE"}

\* a protocol request made with GET; the other specifications vary the marker
\* header, the method and the accept header
Request(partialComponent, partialOnly, partialExcept, reset) ==
  [partialComponent |-> partialComponent, partialOnly |-> partialOnly,
   partialExcept |-> partialExcept, reset |-> reset, url |-> "/users",
   inertia |-> Header(InertiaTrue), method |-> "GET", accept |-> NoHeader]

\* a header that is absent or holds any string of at most MaxHdrLen characters
ListHeaders == {NoHeader} \cup {Header(s) : s \in Strings(MaxHdrLen)}

\* server rendering is off and no root element id is configured; the
\* specification of the dispatch varies both
Config(shared) ==
  [sharedData |-> shared, assetsVersion |-> "v1", encryptHistory |-> FALSE,
   ssrEnabled |-> FALSE, rootElementId |-> ""]

\* the objects with distinct keys from Keys and values from vals, in every
\* insertion order
Objects(vals) ==
  {<<>>}
  \cup {<<Entry(k, v)>> : k \in Keys, v \in vals}
  \cup {<<Entry(k[1], v[1]), Entry(k[2], v[2])>> :
          k \in {kk \in Keys \X Keys : kk[1] # kk[2]}, v \in vals \X vals}

NoPageObject ==
  [component |-> "", url |-> "", version |-> "", props |-> <<>>,
   clearHistory |-> FALSE, encryptHistory |-> FALSE,
   mergeProps |-> Omitted, deferredProps |-> Omitted]

(* ------------------------------ adapter ------------------------------- *)

\* the names headers.js gives the protocol headers
InertiaHeaders == [Inertia |-> "x-inertia", Location |-> "x-inertia-location"]

\* an argument of a call: a number, a string, or left out
Num(n) == [type |-> "number", num |-> n, str |-> <<>>]

Str(s) == [type |-> "string", num |-> 0, str |-> s]

NoArg == [type |-> "undefined", num |-> 0, str |-> <<>>]

\* encodeURI over the characters of the URLs handled: a space is escaped, a
\* path character is kept
RECURSIVE EncodeURI(_)
EncodeURI(s) ==
  IF s = <<>> THEN <<>>
  ELSE (IF Head(s) = " " THEN <<"%", "2", "0">> ELSE <<Head(s)>>) \o EncodeURI(Tail(s))

\* one write on the ServerResponse: a header, the status code, the end of the
\* response with its body
HeaderSet(name, value) ==
  [op |-> "setHeader", name |-> name, text |-> value, code |-> 0, data |-> NoPageObject]

StatusSet(code) ==
  [op |-> "statusCode", name |-> "", text |-> <<>>, code |-> code, data |-> NoPageObject]

Ended(text, data) ==
  [op |-> "end", name |-> "", text |-> text, code |-> 0, data |-> data]

\* one call on a writing method of the adapter, with the status and the text
\* it was handed
Call(fn, code, text) == [fn |-> fn, code |-> code, text |-> text]

\* the adapter's log of calls and the response it writes to
Io(calls, res) == [calls |-> calls, response |-> res]

\* HttpAdapter.getMethod
GetMethod(req) == IF req.method = "" THEN "GET" ELSE req.method

\* HttpAdapter.setHeader
AdapterSetHeader(io, name, value) ==
  Io(Append(io.calls, Call("setHeader", 0, value)),
     Append(io.response, HeaderSet(name, value)))

\* HttpAdapter.setStatus
AdapterSetStatus(io, code) ==
  Io(Append(io.calls, Call("setStatus", code, <<>>)),
     Append(io.response, StatusSet(code)))

\* request.headers["accept"]?.includes("html")
AcceptsHtml(req) ==
  req.accept.present /\ \E i \in 1..Len(req.accept.value) : req.accept.value[i] = "html"

\* Buffer.byteLength of a body of ASCII pieces
RECURSIVE ByteLength(_)
ByteLength(body) == IF body = <<>> THEN 0 ELSE Len(Head(body)) + ByteLength(Tail(body))

\* HttpAdapter.redirect: status, Location, Content-Length, then the end of the
\* response, without a body for HEAD
AdapterRedirect(io, req, statusOrUrl, url) ==
  LET both     == statusOrUrl.type = "number" /\ url.type = "string"
      status   == IF both THEN statusOrUrl.num ELSE 302
      location == IF both THEN url.str
                  ELSE IF statusOrUrl.type = "string" THEN statusOrUrl.str ELSE <<>>
      encodedLocation == EncodeURI(location)
      body     == IF AcceptsHtml(req)
                  THEN <<"<p>", ToString(status), ". Redirecting to <a href=\"">>
                       \o encodedLocation \o <<"\">">> \o encodedLocation \o <<"</a></p>">>
                  ELSE <<ToString(status), ". Redirecting to ">> \o encodedLocation
  IN  Io(Append(io.calls, Call("redirect", statusOrUrl.num, url.str)),
         io.response \o
           <<StatusSet(status),
             HeaderSet("Location", encodedLocation),
             HeaderSet("Content-Length", <<ToString(ByteLength(body))>>),
             Ended(IF GetMethod(req) = "HEAD" THEN <<>> ELSE body, NoPageObject)>>)

\* the value of a prop that refers to itself: JSON.stringify throws on it
Circular == "circular"

\* JSON.stringify(data) returns: no resolved prop holds a circular structure
Serializable(data) == \A i \in 1..Len(data.props) : data.props[i].value.val # Circular

\* what JSON.stringify keeps of a page object: a prop bound to undefined is
\* left out, an omitted field stays omitted
ToJson(data) ==
  [data EXCEPT !.props = SelectSeq(data.props, LAMBDA e : e.value.kind # "undefined")]

\* how a call ended
NoOutcome == [status |-> "none", error |-> ""]

Returned == [status |-> "returned", error |-> ""]

Threw(error) == [status |-> "threw", error |-> error]

\* what a step of a call leaves: the adapter, the way the step ended, and
\* whether the response is ended
Step(io, out, ended) == [io |-> io, outcome |-> out, ended |-> ended]

\* the error of JSON.stringify
StringifyError == "TypeError: Converting circular structure to JSON"

\* HttpAdapter.json: the Content-Type header is set, then JSON.stringify runs
\* in the argument of response.end and its error leaves the method
AdapterJson(io, data) ==
  LET calls  == Append(io.calls, Call("json", 0, <<>>))
      header == Append(io.response, HeaderSet("Content-Type", <<"application/json">>))
  IN  IF Serializable(data)
      THEN Step(Io(calls, Append(header, Ended(<<"json">>, ToJson(data)))), Returned, TRUE)
      ELSE Step(Io(calls, header), Threw(StringifyError), FALSE)

\* HttpAdapter.html; data is the page object the content carries in its
\* data-page attribute, if it carries one
AdapterHtml(io, content, data) ==
  Step(Io(Append(io.calls, Call("html", 0, <<>>)),
          io.response \o <<HeaderSet("Content-Type", <<"text", "/", "html">>),
                           Ended(content, data)>>),
       Returned, TRUE)

\* the arguments of a redirect or location call
Args(statusOrUrl, url) == [statusOrUrl |-> statusOrUrl, url |-> url]

NoCall == Args(NoArg, NoArg)

\* the renderer was not called
NoSsr == [called |-> FALSE, head |-> <<>>, body |-> ""]

(* ------------------------------- Flash -------------------------------- *)

\* the keys messages are flashed under; "constructor" is also the name of a
\* member of Object.prototype, which the store, a plain object, inherits
FlashKeys == {"success", "error", "constructor"}

PrototypeKeys == {"constructor"}

\* a property of the store: not an own property, or the value stored by the
\* n-th set() call
NoSlot == [own |-> FALSE, id |-> 0]

Slot(n) == [own |-> TRUE, id |-> n]

\* req.session.flash = {}
EmptyStore == [k \in FlashKeys |-> NoSlot]

\* what a call returns for a key: undefined, the value stored by the n-th
\* set() call, a member inherited from Object.prototype, a boolean
NotThere == [kind |-> "undefined", id |-> 0]

Stored(n) == [kind |-> "stored", id |-> n]

Inherited == [kind |-> "inherited", id |-> 0]

Bool(b) == [kind |-> IF b THEN "true" ELSE "false", id |-> 0]

\* a Flash call, the key it was given and what it returned, by key
FlashCall(op, key, returned) == [op |-> op, key |-> key, returned |-> returned]

Return(key, value) == [key |-> key, value |-> value]

\* delete store[key]: an own property goes, an inherited one stays
DeleteKey(store, key) == [store EXCEPT ![key] = NoSlot]

\* store[key]: the own property, else what the prototype chain gives
Lookup(store, key) ==
  IF store[key].own THEN Stored(store[key].id)
  ELSE IF key \in PrototypeKeys THEN Inherited
  ELSE NotThere

\* Object.prototype.hasOwnProperty.call(store, key)
HasOwn(store, key) == store[key].own

\* { ...store }: the own properties
SpreadStore(store) ==
  {Return(k, Stored(store[k].id)) : k \in {j \in FlashKeys : store[j].own}}

\* how often the value of each set() call was returned, after one more
\* return of those of ids
Deliver(delivered, ids) ==
  [n \in DOMAIN delivered \cup ids |->
     (IF n \in DOMAIN delivered THEN delivered[n] ELSE 0) + (IF n \in ids THEN 1 ELSE 0)]

\* the ids of the stored values among what a call returned
StoredIds(returned) == {r.value.id : r \in {q \in returned : q.value.kind = "stored"}}

\* Flash.get(key)
FlashGet(key) ==
  LET value == Lookup(flash, key)
  IN  /\ flash' = DeleteKey(flash, key)
      /\ flashLast' = FlashCall("get", key, {Return(key, value)})
      /\ flashDelivered' = Deliver(flashDelivered, StoredIds({Return(key, value)}))
      /\ flashGone' = flashGone \cup {key}
      /\ UNCHANGED <<inertiaVars, flashSets>>

\* Flash.set(key, value)
FlashSet(key) ==
  /\ flashSets < MaxSets
  /\ flashSets' = flashSets + 1
  /\ flash' = [flash EXCEPT ![key] = Slot(flashSets')]
  /\ flashLast' = FlashCall("set", key, {})
  /\ flashGone' = flashGone \ {key}
  /\ UNCHANGED <<inertiaVars, flashDelivered>>

\* Flash.has(key)
FlashHas(key) ==
  /\ flashLast' = FlashCall("has", key, {Return(key, Bool(HasOwn(flash, key)))})
  /\ UNCHANGED <<inertiaVars, flash, flashSets, flashDelivered, flashGone>>

\* Flash.all()
FlashAll ==
  /\ flashLast' = FlashCall("all", "", SpreadStore(flash))
  /\ flash' = EmptyStore
  /\ flashDelivered' = Deliver(flashDelivered, StoredIds(SpreadStore(flash)))
  /\ flashGone' = FlashKeys
  /\ UNCHANGED <<inertiaVars, flashSets>>

\* Flash.clear()
FlashClear ==
  /\ flashLast' = FlashCall("clear", "", {})
  /\ flash' = EmptyStore
  /\ flashGone' = FlashKeys
  /\ UNCHANGED <<inertiaVars, flashSets, flashDelivered>>

\* Flash.peek(key)
FlashPeek(key) ==
  /\ flashLast' = FlashCall("peek", key, {Return(key, Lookup(flash, key))})
  /\ UNCHANGED <<inertiaVars, flash, flashSets, flashDelivered, flashGone>>

\* the history flags a render call found when it started, and whether
\* clearHistory() had been called since the render call before it ended
Flags(clear, encrypt, requested) ==
  [clear |-> clear, encrypt |-> encrypt, requested |-> requested]

\* the constructor, for a request of requests and a config of configs
Construct(requests, configs) ==
  /\ request \in requests
  /\ config \in configs
  /\ sharedData = config.sharedData
  /\ shareLog = <<>>
  /\ shouldClearHistory = FALSE
  /\ shouldEncryptHistory = config.encryptHistory
  /\ component = ""
  /\ pageProps = <<>>
  /\ propsToResolve = <<>>
  /\ invoked = {}
  /\ pageObject = NoPageObject
  /\ responseEnded = FALSE
  /\ lastOp = "new"
  /\ callArgs = NoCall
  /\ adapterCalls = <<>>
  /\ response = <<>>
  /\ outcome = NoOutcome
  /\ ssr = NoSsr
  /\ template = <<>>
  /\ pc = "idle"
  /\ candidates = <<>>
  /\ tasks = <<>>
  /\ settleOrder = <<>>
  /\ sharesSeen = 0
  /\ flagsSeen = Flags(shouldClearHistory, shouldEncryptHistory, FALSE)
  /\ clearRequested = FALSE
  /\ flash = EmptyStore
  /\ flashSets = 0
  /\ flashLast = FlashCall("new", "", {})
  /\ flashDelivered = <<>>
  /\ flashGone = {}

(* ------------------------------ actions ------------------------------- *)

\* share gone wrong: the shared data is updated in place, and a render call
\* under way reads the new values
ShareInPlace(data) ==
  LET live(obj) ==
        [i \in 1..Len(obj) |->
           IF Has(data, obj[i].key) /\ ~Has(pageProps, obj[i].key)
           THEN Entry(obj[i].key, Get(data, obj[i].key)) ELSE obj[i]]
  IN  /\ Len(shareLog) < MaxShares
      /\ sharedData' = ObjectSpread(sharedData, data)
      /\ shareLog' = Append(shareLog, data)
      /\ lastOp' = "share"
      /\ UNCHANGED flashVars
      /\ UNCHANGED historyVars
      /\ propsToResolve' = live(propsToResolve)
      /\ candidates' = live(candidates)
      /\ UNCHANGED <<request, config, shouldClearHistory, shouldEncryptHistory,
                     component, pageProps, invoked, pageObject, responseVars,
                     callArgs, outcome, viewVars, pc, tasks, settleOrder, sharesSeen>>

\* share(data)
Share(data) ==
  /\ Len(shareLog) < MaxShares
  /\ sharedData' = ObjectSpread(sharedData, data)
  /\ shareLog' = Append(shareLog, data)
  /\ lastOp' = "share"
  /\ UNCHANGED flashVars
  /\ UNCHANGED historyVars
  /\ UNCHANGED <<request, config, shouldClearHistory, shouldEncryptHistory,
                 renderVars, responseVars, callArgs, outcome, viewVars, asyncVars>>

\* #inertiaHeadTag and #inertiaBodyTag
InertiaHeadTag == "<!-- @inertiaHead -->"

InertiaBodyTag == "<!-- @inertia -->"

\* String.replace(tag, () => by) over a document held as a sequence of
\* pieces: the first piece that is the tag gives way to the pieces of by
RECURSIVE Replace(_, _, _)
Replace(doc, tag, by) ==
  IF doc = <<>> THEN <<>>
  ELSE IF Head(doc) = tag THEN by \o Tail(doc)
  ELSE <<Head(doc)>> \o Replace(Tail(doc), tag, by)

\* Array.join("\n"), and || "" on its result
RECURSIVE Join(_)
Join(head) ==
  IF head = <<>> THEN <<>>
  ELSE IF Len(head) = 1 THEN (IF head[1] = "" THEN <<>> ELSE head)
  ELSE <<head[1], "\n">> \o Join(Tail(head))

\* this.config?.rootElementId || "app"
RootElementId(cfg) == IF cfg.rootElementId = "" THEN "app" ELSE cfg.rootElementId

\* the element the client mounts on; its data-page attribute holds the
\* encoded page object, which the response carries beside the document
RootElement(cfg) == "<div id=\"" \o RootElementId(cfg) \o "\" data-page></div>"

\* the view gone wrong: the client-side element also when the renderer
\* returned a body
RenderViewClientSide(io, cfg, tpl, data, out) ==
  IF ~Serializable(data) THEN Step(io, Threw(StringifyError), FALSE)
  ELSE AdapterHtml(io,
         Replace(Replace(tpl, InertiaHeadTag, <<>>), InertiaBodyTag, <<RootElement(cfg)>>),
         ToJson(data))

\* #renderView, for the layout tpl that #resolveLayout returned and the
\* fragments out of the server renderer (NoSsr when it was not called)
RenderView(io, cfg, tpl, data, out) ==
  IF out.body # ""
  THEN AdapterHtml(io,
         Replace(Replace(tpl, InertiaHeadTag, Join(out.head)), InertiaBodyTag, <<out.body>>),
         NoPageObject)
  ELSE IF ~Serializable(data) THEN Step(io, Threw(StringifyError), FALSE)
  ELSE AdapterHtml(io,
         Replace(Replace(tpl, InertiaHeadTag, <<>>), InertiaBodyTag, <<RootElement(cfg)>>),
         ToJson(data))

\* the protocol answer gone wrong: the marker header is not set
JsonResponseUnmarked(io, data) == AdapterJson(io, data)

\* the answer to a protocol request: the marker header, then the page object
JsonResponse(io, data) ==
  AdapterJson(AdapterSetHeader(io, InertiaHeaders.Inertia, InertiaTrue), data)

\* render once the page object is built: a request without a truthy marker
\* header gets the view, rendered on the server if the config says so
Dispatch(io, req, cfg, tpl, data, out) ==
  IF ~Truthy(req.inertia) THEN RenderView(io, cfg, tpl, data, out)
  ELSE JsonResponse(io, data)

\* what the server renderer may return to a render call: it is called for a
\* request without a truthy marker header when the config enables it
HeadFragments == {<<>>, <<"<title>">>, <<"<title>", "<meta>">>}

BodyFragments == {"", "<main>"}

RendererOutputs(req, cfg) ==
  IF ~Truthy(req.inertia) /\ cfg.ssrEnabled
  THEN {[called |-> TRUE, head |-> h, body |-> b] : h \in HeadFragments, b \in BodyFragments}
  ELSE {NoSsr}

\* the layouts #resolveLayout may return: with both tags, without the head tag
Templates ==
  {<<"<head>", InertiaHeadTag, "</head>", "<body>", InertiaBodyTag, "</body>">>,
   <<"<body>", InertiaBodyTag, "</body>">>}

Layouts(req) == IF ~Truthy(req.inertia) THEN Templates ELSE {<<>>}

\* the render calls so far that reached the adapter's json or html
RenderCalls ==
  Cardinality({i \in 1..Len(adapterCalls) : adapterCalls[i].fn \in {"json", "html"}})

\* render(component, pageProps), taken in one step: builds the page object
\* and hands it to the adapter, which ends the response (json or html); one
\* response is ended once
Render(comp, props) ==
  /\ ~responseEnded
  /\ RenderCalls < MaxRenders
  /\ \E out \in RendererOutputs(request, config), tpl \in Layouts(request) :
       LET d == Dispatch(Io(adapterCalls, response), request, config, tpl,
                         BuildPageObject(request, config, sharedData,
                                         shouldClearHistory, shouldEncryptHistory,
                                         comp, props),
                         out)
       IN  /\ ssr' = out
           /\ template' = tpl
           /\ adapterCalls' = d.io.calls
           /\ response' = d.io.response
           /\ outcome' = d.outcome
           /\ responseEnded' = d.ended
  /\ component' = comp
  /\ pageProps' = props
  /\ propsToResolve' = PickPropsToResolve(request, comp, MergedProps(sharedData, props))
  /\ invoked' = CallbacksInvoked(propsToResolve')
  /\ pageObject' = BuildPageObject(request, config, sharedData, shouldClearHistory,
                                   shouldEncryptHistory, comp, props)
  /\ lastOp' = "render"
  /\ UNCHANGED flashVars
  /\ flagsSeen' = Flags(shouldClearHistory, shouldEncryptHistory, clearRequested)
  /\ clearRequested' = FALSE
  /\ UNCHANGED <<request, config, sharedData, shareLog, shouldClearHistory,
                 shouldEncryptHistory, callArgs, asyncVars>>

\* clearHistory()
ClearHistory ==
  /\ shouldClearHistory' = TRUE
  /\ clearRequested' = TRUE
  /\ lastOp' = "clearHistory"
  /\ UNCHANGED flashVars
  /\ UNCHANGED <<request, config, sharedData, shareLog, shouldEncryptHistory,
                 renderVars, responseVars, callArgs, outcome, viewVars, asyncVars,
                 flagsSeen>>

\* encryptHistory(encrypt)
EncryptHistory(encrypt) ==
  /\ shouldEncryptHistory' = encrypt
  /\ lastOp' = "encryptHistory"
  /\ UNCHANGED flashVars
  /\ UNCHANGED <<request, config, sharedData, shareLog, shouldClearHistory,
                 renderVars, responseVars, callArgs, outcome, viewVars, asyncVars,
                 historyVars>>

\* the page object #buildPageObject returns once #resolvePageProps has
\* resolved the picked props: the flags and the listings are read then
PageObjectWith(req, cfg, clear, encrypt, comp, props, resolved) ==
  [component      |-> comp,
   url            |-> Url(req),
   version        |-> cfg.assetsVersion,
   props          |-> resolved,
   clearHistory   |-> clear,
   encryptHistory |-> encrypt,
   mergeProps     |-> ResolveMergeProps(req, props),
   deferredProps  |-> ResolveDeferredProps(req, comp, props)]

\* a promise of the Promise.all of #resolvePageProps: pending, fulfilled with
\* a value, or rejected
Pending == [state |-> "pending", value |-> Undefined]

Fulfilled(value) == [state |-> "fulfilled", value |-> value]

Rejected == [state |-> "rejected", value |-> Undefined]

\* the error the callback of the prop declared under key throws
ErrorOf(key) == "error of " \o key[1]

\* the callback of a picked prop can throw: a plain function or a wrapper
CanFail(value) == value.kind = "function" \/ IsWrapper(value)

\* Promise.all is fulfilled once every promise is
AllFulfilled(ts) == \A i \in 1..Len(ts) : ts[i].state = "fulfilled"

\* the entries gone wrong: the keys are taken in the order the promises settled
FromEntriesAsSettled(picked, ts, order) ==
  [i \in 1..Len(picked) |-> Entry(order[i], ts[i].value)]

\* Promise.all and Object.fromEntries: the i-th result is the i-th entry's,
\* whatever the order the promises settled in
FromEntries(picked, ts, order) ==
  [i \in 1..Len(picked) |-> Entry(picked[i].key, ts[i].value)]

\* the rejection gone wrong: the failure of a callback is dropped
RejectionDropped(out, key) == out

\* Promise.all rejects with the first rejection; render has no catch, so it
\* rejects with that error
Rejection(out, key) == Threw(ErrorOf(key))

\* render, taken step by step. It starts: #buildPageObject spreads the
\* shared data and the props into one object, #pickPropsToResolve picks from
\* it, and #resolvePageProps starts one promise per picked prop
RenderStart(comp, props) ==
  /\ pc = "idle"
  /\ ~responseEnded
  /\ RenderCalls < MaxRenders
  /\ component' = comp
  /\ pageProps' = props
  /\ candidates' = MergedProps(sharedData, props)
  /\ propsToResolve' = PickPropsToResolve(request, comp, candidates')
  /\ invoked' = CallbacksInvoked(propsToResolve')
  /\ tasks' = [i \in 1..Len(propsToResolve') |-> Pending]
  /\ settleOrder' = <<>>
  /\ sharesSeen' = Len(shareLog)
  /\ flagsSeen' = Flags(shouldClearHistory, shouldEncryptHistory, clearRequested)
  /\ UNCHANGED clearRequested
  /\ pc' = "resolving"
  /\ outcome' = NoOutcome
  /\ lastOp' = "renderStart"
  /\ UNCHANGED flashVars
  /\ UNCHANGED <<request, config, sharedData, shareLog, shouldClearHistory,
                 shouldEncryptHistory, pageObject, responseVars, callArgs, viewVars>>

\* the promise of the i-th picked prop is fulfilled
Settle(i) ==
  /\ pc \in {"resolving", "rejected"}
  /\ i \in 1..Len(tasks)
  /\ tasks[i].state = "pending"
  /\ tasks' = [tasks EXCEPT ![i] = Fulfilled(ResolveEntry(propsToResolve[i].value))]
  /\ settleOrder' = Append(settleOrder, propsToResolve[i].key)
  /\ lastOp' = "settle"
  /\ UNCHANGED flashVars
  /\ UNCHANGED historyVars
  /\ UNCHANGED <<request, config, sharedData, shareLog, shouldClearHistory,
                 shouldEncryptHistory, renderVars, responseVars, callArgs, outcome,
                 viewVars, pc, candidates, sharesSeen>>

\* the callback of the i-th picked prop throws, or its promise rejects: the
\* first rejection rejects Promise.all and with it render; the promises of
\* the siblings still settle, unheard
Fail(i) ==
  /\ pc \in {"resolving", "rejected"}
  /\ i \in 1..Len(tasks)
  /\ tasks[i].state = "pending"
  /\ CanFail(propsToResolve[i].value)
  /\ tasks' = [tasks EXCEPT ![i] = Rejected]
  /\ settleOrder' = Append(settleOrder, propsToResolve[i].key)
  /\ pc' = "rejected"
  /\ outcome' = IF pc = "resolving" THEN Rejection(outcome, propsToResolve[i].key)
                ELSE outcome
  /\ lastOp' = "fail"
  /\ UNCHANGED flashVars
  /\ clearRequested' = IF pc = "resolving" THEN FALSE ELSE clearRequested
  /\ UNCHANGED flagsSeen
  /\ UNCHANGED <<request, config, sharedData, shareLog, shouldClearHistory,
                 shouldEncryptHistory, renderVars, responseVars, callArgs,
                 viewVars, candidates, sharesSeen>>

\* every promise is fulfilled: render goes on to build the page object and
\* to hand it to the adapter
RenderFinish ==
  /\ pc = "resolving"
  /\ AllFulfilled(tasks)
  /\ \E out \in RendererOutputs(request, config), tpl \in Layouts(request) :
       LET data == PageObjectWith(request, config, shouldClearHistory,
                                  shouldEncryptHistory, component, pageProps,
                                  FromEntries(propsToResolve, tasks, settleOrder))
           d    == Dispatch(Io(adapterCalls, response), request, config, tpl, data, out)
       IN  /\ pageObject' = data
           /\ ssr' = out
           /\ template' = tpl
           /\ adapterCalls' = d.io.calls
           /\ response' = d.io.response
           /\ outcome' = d.outcome
           /\ responseEnded' = d.ended
  /\ pc' = "idle"
  /\ lastOp' = "render"
  /\ UNCHANGED flashVars
  /\ clearRequested' = FALSE
  /\ UNCHANGED flagsSeen
  /\ UNCHANGED <<request, config, sharedData, shareLog, shouldClearHistory,
                 shouldEncryptHistory, component, pageProps, propsToResolve,
                 invoked, callArgs, candidates, tasks, settleOrder, sharesSeen>>

\* the status redirect hands on whatever the method is
RedirectStatusAnyMethod(status, method) == status

\* the status redirect hands to the adapter: the default 302 becomes 303 for
\* the methods that carry a body
RedirectStatus(status, method) ==
  IF status = 302 /\ method \in {"PUT", "PATCH", "DELETE"} THEN 303 ELSE status

\* the location gone wrong: a missing URL falls back on the root
ComputedLocationOrRoot(statusOrUrl, url) ==
  IF statusOrUrl.type = "number"
  THEN (IF url.str = <<>> THEN <<"/">> ELSE url.str)
  ELSE (IF statusOrUrl.str = <<>> THEN <<"/">> ELSE statusOrUrl.str)

\* the status and the location redirect computes from its arguments
ComputedStatus(statusOrUrl) ==
  IF statusOrUrl.type = "number" THEN statusOrUrl.num ELSE 302

ComputedLocation(statusOrUrl, url) ==
  IF statusOrUrl.type = "number"
  THEN (IF url.type = "undefined" THEN <<>> ELSE url.str)
  ELSE statusOrUrl.str

\* this.adapter.getMethod() || "HEAD"
MethodOrHead(req) == IF GetMethod(req) = "" THEN "HEAD" ELSE GetMethod(req)

\* the writes gone wrong: the Vary header is set after the adapter's redirect
RedirectWritesVaryLast(io, req, status, location) ==
  AdapterSetHeader(AdapterRedirect(io, req, Num(status), Str(location)),
                   "Vary", <<InertiaHeaders.Inertia>>)

\* what redirect does to the adapter once it has a location
RedirectWrites(io, req, status, location) ==
  AdapterRedirect(AdapterSetHeader(io, "Vary", <<InertiaHeaders.Inertia>>),
                  req, Num(status), Str(location))

\* redirect(statusOrUrl, url)
Redirect(statusOrUrl, url) ==
  LET location == ComputedLocation(statusOrUrl, url)
      status   == RedirectStatus(ComputedStatus(statusOrUrl), MethodOrHead(request))
      io       == RedirectWrites(Io(adapterCalls, response), request, status, location)
  IN  /\ ~responseEnded
      /\ callArgs' = Args(statusOrUrl, url)
      /\ lastOp' = "redirect"
      /\ UNCHANGED flashVars
      /\ UNCHANGED historyVars
      /\ IF location = <<>>
         THEN /\ outcome' = Threw("Redirect URL is required")
              /\ UNCHANGED responseVars
         ELSE /\ outcome' = Returned
              /\ adapterCalls' = io.calls
              /\ response' = io.response
              /\ responseEnded' = TRUE
      /\ UNCHANGED <<request, config, sharedData, shareLog, shouldClearHistory,
                     shouldEncryptHistory, renderVars, viewVars, asyncVars>>

\* location gone wrong: a redirect with a body
LocationWritesRedirect(io, url) == AdapterRedirect(io, request, Str(url), NoArg)

\* what location does to the adapter
LocationWrites(io, url) ==
  AdapterSetStatus(AdapterSetHeader(io, InertiaHeaders.Location, EncodeURI(url)), 409)

\* the location calls made so far: each one sets the status
LocationCalls ==
  Cardinality({i \in 1..Len(adapterCalls) : adapterCalls[i].fn = "setStatus"})

\* location(url)
Location(url) ==
  LET io == LocationWrites(Io(adapterCalls, response), url)
  IN  /\ ~responseEnded
      /\ LocationCalls < MaxLocations
      /\ callArgs' = Args(Str(url), NoArg)
      /\ lastOp' = "location"
      /\ UNCHANGED flashVars
      /\ UNCHANGED historyVars
      /\ outcome' = Returned
      /\ adapterCalls' = io.calls
      /\ response' = io.response
      /\ UNCHANGED <<request, config, sharedData, shareLog, shouldClearHistory,
                     shouldEncryptHistory, renderVars, responseEnded, viewVars,
                     asyncVars>>

(* --------------------------- specifications --------------------------- *)

PageVal == "page"

\* what the n-th share() call shares
ShareVal(n) == "share" \o ToString(n)

\* every kind of per-call prop
PropValues ==
  {Data(PageVal), Fn(PageVal), FnOptional(PageVal), optional(PageVal),
   defer(PageVal, NoGroup), defer(PageVal, "g1"), merge(PageVal),
   UnflaggedMerge(PageVal), always(PageVal)}

\* one instance over its life: share() calls and render calls
LifeRequests ==
  {Request(c, o, e, NoHeader) :
     c \in ComponentHeaders,
     o \in {NoHeader, Header(<<"a">>)},
     e \in {NoHeader, Header(<<"b">>)}}

LifeConfigs ==
  {Config(<<>>), Config(<<Entry(<<"a">>, Data("config"))>>),
   Config(<<Entry(<<"b">>, Fn("config"))>>)}

ShareArgs(n) == {<<Entry(k, Data(ShareVal(n)))>> : k \in Keys}

Init == Construct(LifeRequests, LifeConfigs)

Next ==
  \/ \E data \in ShareArgs(Len(shareLog) + 1) : Share(data)
  \/ \E comp \in Components, props \in Objects(PropValues) : Render(comp, props)

Spec == Init /\ [][Next]_vars

\* the partial-reload filter: every partial-data and partial-except header
\* against every candidate prop set
FilterRequests ==
  {Request(c, o, e, NoHeader) :
     c \in ComponentHeaders, o \in ListHeaders, e \in ListHeaders}

FilterValues ==
  {Data(PageVal), Fn(PageVal), optional(PageVal), defer(PageVal, NoGroup),
   always(PageVal)}

InitFilter == Construct(FilterRequests, {Config(<<>>)})

NextFilter ==
  \E comp \in Components, props \in Objects(FilterValues) : Render(comp, props)

SpecFilter == InitFilter /\ [][NextFilter]_vars

\* the deferred-props and merge-props listings: every reset header against
\* every per-call prop set
ListingRequests ==
  {Request(c, NoHeader, NoHeader, r) : c \in ComponentHeaders, r \in ListHeaders}

ListingValues ==
  {Data(PageVal), optional(PageVal), defer(PageVal, NoGroup), defer(PageVal, "g1"),
   merge(PageVal), UnflaggedMerge(PageVal), always(PageVal)}

InitListing == Construct(ListingRequests, {Config(<<>>)})

NextListing ==
  \E comp \in Components, props \in Objects(ListingValues) : Render(comp, props)

SpecListing == InitListing /\ [][NextListing]_vars

\* redirect and location: every method and accept header against every shape
\* of call
UrlStrings == {<<>>, <<"/", "a">>, <<"/", " ">>}

RedirectStatuses == {301, 302, 303}

AcceptHeaders ==
  {NoHeader, Header(<<"text", "/", "html">>), Header(<<"application", "/", "json">>)}

RedirectRequests ==
  {[Request(NoComponentHeader, NoHeader, NoHeader, NoHeader)
      EXCEPT !.method = m, !.accept = a] : m \in Methods, a \in AcceptHeaders}

\* a bare URL, or a status
FirstArgs == {Str(u) : u \in UrlStrings} \cup {Num(n) : n \in RedirectStatuses}

\* a URL, or nothing
SecondArgs == {NoArg} \cup {Str(u) : u \in UrlStrings}

InitRedirect == Construct(RedirectRequests, {Config(<<>>)})

NextRedirect ==
  \/ \E statusOrUrl \in FirstArgs, url \in SecondArgs : Redirect(statusOrUrl, url)
  \/ \E url \in UrlStrings : Location(url)

SpecRedirect == InitRedirect /\ [][NextRedirect]_vars

\* the dispatch of render: every marker header and server-rendering setting
\* against props that can and cannot be encoded
MarkerHeaders == {NoHeader, Header(<<>>), Header(InertiaTrue)}

DispatchRequests ==
  {[Request(NoComponentHeader, NoHeader, NoHeader, NoHeader) EXCEPT !.inertia = h] :
     h \in MarkerHeaders}

DispatchConfigs ==
  {[Config(<<>>) EXCEPT !.ssrEnabled = e, !.rootElementId = id] :
     e \in BOOLEAN, id \in {"", "root"}}

DispatchValues == {Data(PageVal), Data(Circular), Fn(PageVal)}

InitDispatch == Construct(DispatchRequests, DispatchConfigs)

NextDispatch ==
  \E comp \in Components, props \in Objects(DispatchValues) : Render(comp, props)

SpecDispatch == InitDispatch /\ [][NextDispatch]_vars

\* render taken step by step: the promises of the picked props settle in any
\* order, callbacks fail, and share() is called while they are pending
AsyncRequests ==
  {Request(c, NoHeader, NoHeader, NoHeader) :
     c \in {NoComponentHeader, ComponentHeader("Home")}}

AsyncConfigs == {Config(<<>>), Config(<<Entry(<<"a">>, Data("config"))>>)}

AsyncValues == {Data(PageVal), Fn("called"), optional("lazy"), always("forced")}

InitAsync == Construct(AsyncRequests, AsyncConfigs)

NextAsync ==
  \/ \E data \in ShareArgs(Len(shareLog) + 1) : Share(data)
  \/ \E comp \in Components, props \in Objects(AsyncValues) : RenderStart(comp, props)
  \/ \E i \in 1..Cardinality(Keys) : Settle(i)
  \/ \E i \in 1..Cardinality(Keys) : Fail(i)
  \/ RenderFinish

SpecAsync == InitAsync /\ [][NextAsync]_vars

\* the history flags: clearHistory() and encryptHistory() before and during
\* render calls taken step by step, one of which can fail at the adapter and
\* be followed by another
HistoryRequests == {Request(NoComponentHeader, NoHeader, NoHeader, NoHeader)}

HistoryConfigs == {[Config(<<>>) EXCEPT !.encryptHistory = e] : e \in BOOLEAN}

HistoryValues == {Data(Circular), Fn("called")}

InitHistory == Construct(HistoryRequests, HistoryConfigs)

NextHistory ==
  \/ ClearHistory
  \/ \E encrypt \in BOOLEAN : EncryptHistory(encrypt)
  \/ \E comp \in Components, props \in Objects(HistoryValues) : RenderStart(comp, props)
  \/ \E i \in 1..Cardinality(Keys) : Settle(i)
  \/ \E i \in 1..Cardinality(Keys) : Fail(i)
  \/ RenderFinish

SpecHistory == InitHistory /\ [][NextHistory]_vars

\* the Flash messages of one session: every sequence of calls
InitFlash ==
  Construct({Request(NoComponentHeader, NoHeader, NoHeader, NoHeader)}, {Config(<<>>)})

NextFlash ==
  \/ \E key \in FlashKeys : FlashGet(key)
  \/ \E key \in FlashKeys : FlashSet(key)
  \/ \E key \in FlashKeys : FlashHas(key)
  \/ FlashAll
  \/ FlashClear
  \/ \E key \in FlashKeys : FlashPeek(key)

SpecFlash == InitFlash /\ [][NextFlash]_vars

(* ------------------- vocabulary of the properties --------------------- *)

\* the last operation was a render call: sharedData is what that call read
Rendered == lastOp = "render"

\* the keys a comma-separated header names: its non-empty pieces between commas
NamedKeys(h) ==
  IF ~h.present THEN {}
  ELSE LET s == h.value
           n == Len(s)
       IN  {SubSeq(s, p[1], p[2]) :
              p \in {q \in (1..n) \X (1..n) :
                       /\ q[1] <= q[2]
                       /\ q[1] = 1 \/ s[q[1] - 1] = Comma
                       /\ q[2] = n \/ s[q[2] + 1] = Comma
                       /\ \A m \in q[1]..q[2] : s[m] # Comma}}

\* the request is a partial request for the rendered component
PartialRequest ==
  request.partialComponent.present /\ request.partialComponent.value = component

\* the header is there and is not the empty string
Given(h) == h.present /\ Len(h.value) > 0

\* the candidate prop set of the render call: shared data, shadowed by per-call props
CandidateKeys == ObjKeys(sharedData) \cup ObjKeys(pageProps)

Candidate(k) == IF Has(pageProps, k) THEN Get(pageProps, k) ELSE Get(sharedData, k)

AlwaysKeys == {k \in CandidateKeys : Candidate(k).kind = "AlwaysProp"}

ResolvedKeys == ObjKeys(pageObject.props)

Resolved(k) == Get(pageObject.props, k)

\* the same request without its partial-data and partial-except headers
WithoutOnly(req) == [req EXCEPT !.partialOnly = NoHeader]

WithoutExcept(req) == [req EXCEPT !.partialExcept = NoHeader]

PageObjectFor(req) ==
  BuildPageObject(req, config, sharedData, shouldClearHistory,
                  shouldEncryptHistory, component, pageProps)

(* ------------------------------- C1 ----------------------------------- *)

\* C1: on every request, every Always-variant entry of the merged candidate
\* prop set is among the resolved props of the page object, also when its key
\* is named in the except header or is missing from the only header.
C1_AlwaysResolved ==
  Rendered => \A k \in AlwaysKeys : k \in ResolvedKeys

(* ------------------------------- C4 ----------------------------------- *)

\* C4: an Optional-variant prop is in the resolved props, and its callback is
\* invoked, only if the request is a partial request for the rendered
\* component whose only header names the prop's key.
C4_OptionalOnlyByName ==
  Rendered =>
    \A k \in CandidateKeys :
      (Candidate(k).kind = "OptionalProp" /\ (k \in ResolvedKeys \/ k \in invoked))
        => (PartialRequest /\ k \in NamedKeys(request.partialOnly))

(* ------------------------------- C6 ----------------------------------- *)

\* C6: on a partial request, an only or except header that is absent, empty
\* or yields an empty key list is no constraint: the resolved props equal
\* those of the same request without that header.
C6_EmptyListNoConstraint ==
  (Rendered /\ PartialRequest) =>
    /\ NamedKeys(request.partialOnly) = {}
         => pageObject.props = PageObjectFor(WithoutOnly(request)).props
    /\ NamedKeys(request.partialExcept) = {}
         => pageObject.props = PageObjectFor(WithoutExcept(request)).props

(* ------------------------------- C2 ----------------------------------- *)

C3_FirstLoad ==
  (Rendered /\ ~PartialRequest) =>
    \A k \in CandidateKeys :
      /\ Candidate(k).kind \in {"OptionalProp", "DeferProp"}
           => (k \notin ResolvedKeys /\ k \notin invoked)
      /\ Candidate(k).kind \in {"AlwaysProp", "MergeProp", "data", "function"}
           => (k \in ResolvedKeys /\ Resolved(k) = Data(Candidate(k).val))

\* a first load of a shared prop next to a per-call Optional or Deferred prop
C3_Witness ==
  /\ Rendered /\ ~PartialRequest
  /\ \E k \in CandidateKeys :
       Candidate(k).kind \in {"OptionalProp", "DeferProp"} /\ k \notin ResolvedKeys
  /\ \E k \in ObjKeys(sharedData) \ ObjKeys(pageProps) : k \in ResolvedKeys

(* ------------------------------- C5 ----------------------------------- *)

\* C5: when the partial-component header is absent or differs from the
\* rendered component, the request is not partial even if only/except headers
\* are present: the page object equals the one built for the same request
\* without those headers (Optional and Deferred props dropped, only/except
\* ignored, the deferredProps listing advertised).
C5_NotPartial ==
  (Rendered /\ ~PartialRequest) =>
    /\ pageObject = PageObjectFor(WithoutExcept(WithoutOnly(request)))
    /\ ResolvedKeys =
         {k \in CandidateKeys : Candidate(k).kind \notin {"OptionalProp", "DeferProp"}}
    /\ pageObject.deferredProps.present
         <=> (\E k \in ObjKeys(pageProps) : Get(pageProps, k).kind = "DeferProp")

\* a request for another component with only and except headers naming
\* candidate keys, rendered with a Deferred prop
C5_Witness ==
  /\ Rendered
  /\ request.partialComponent.present /\ request.partialComponent.value # component
  /\ \E k \in NamedKeys(request.partialExcept) : k \in ResolvedKeys
  /\ \E k \in CandidateKeys \ NamedKeys(request.partialOnly) :
       Given(request.partialOnly) /\ k \in ResolvedKeys
  /\ pageObject.deferredProps.present

(* ------------------------------- C7 ----------------------------------- *)

\* C7: on a partial request with an except header the except list is applied
\* after the only list: a candidate key that is not Always is resolved iff the
\* only list (when given) names it and the except list does not, so no
\* non-Always key named in except is resolved and no key outside except is
\* removed by it.
C7_ExceptAfterOnly ==
  (Rendered /\ PartialRequest /\ Given(request.partialExcept)) =>
    LET S == NamedKeys(request.partialOnly)
        E == NamedKeys(request.partialExcept)
        kept(k) == (Given(request.partialOnly) => k \in S) /\ k \notin E
    IN  /\ \A k \in CandidateKeys \ AlwaysKeys : k \in ResolvedKeys <=> kept(k)
        /\ \A k \in E \cap ResolvedKeys : k \in AlwaysKeys
        /\ \A k \in CandidateKeys \ E : kept(k) => k \in ResolvedKeys

\* a partial request whose only and except headers name the same candidate key
C7_Witness ==
  /\ Rendered /\ PartialRequest
  /\ Given(request.partialOnly) /\ Given(request.partialExcept)
  /\ \E k \in CandidateKeys \ AlwaysKeys :
       /\ k \in NamedKeys(request.partialOnly)
       /\ k \in NamedKeys(request.partialExcept)
       /\ k \notin ResolvedKeys

(* ------------------------------- C8 ----------------------------------- *)

\* the per-call Deferred props
DeferredKeys == {k \in ObjKeys(pageProps) : Get(pageProps, k).kind = "DeferProp"}

\* the place of a key among the per-call props, as declared
Declared(k) == IndexOf(pageProps, k)

\* C8: the deferredProps listing is present only on requests that are not
\* partial for the rendered component; it then maps each declared group
\* (default "default") to the keys of the Deferred per-call props of that
\* group in first-declared order, holds every such key exactly once, and is
\* omitted when there is no Deferred per-call prop.
C8_DeferredListing ==
  Rendered =>
    LET dp == pageObject.deferredProps
    IN  /\ PartialRequest => ~dp.present
        /\ ~PartialRequest => (dp.present <=> DeferredKeys # {})
        /\ dp.present =>
             /\ ObjKeys(dp.value) = {Get(pageProps, k).group : k \in DeferredKeys}
             /\ \A i \in 1..Len(dp.value) :
                  LET g == dp.value[i].key
                      l == dp.value[i].value
                  IN  /\ Range(l) = {k \in DeferredKeys : Get(pageProps, k).group = g}
                      /\ \A m, n \in 1..Len(l) : m < n => Declared(l[m]) < Declared(l[n])
             /\ \A k \in DeferredKeys :
                  Get(pageProps, k) = defer(PageVal, NoGroup)
                    => k \in Range(GroupKeys(dp.value, "default"))

\* a first load with two Deferred props of the default group, "b" declared first
C8_Witness ==
  /\ Rendered /\ ~PartialRequest
  /\ pageObject.deferredProps.present
  /\ GroupKeys(pageObject.deferredProps.value, "default") = << <<"b">>, <<"a">> >>

(* ------------------------------- C9 ----------------------------------- *)

\* the per-call Merge props whose merge flag is set
MergeFlagged ==
  {k \in ObjKeys(pageProps) :
     Get(pageProps, k).kind = "MergeProp" /\ Get(pageProps, k).shouldMerge}

\* C9: the mergeProps listing is exactly the keys of the per-call Merge props
\* whose merge flag is set, less every key named in the comma-separated reset
\* header; the field is omitted when that set is empty.
C9_MergeListing ==
  Rendered =>
    LET mp   == pageObject.mergeProps
        want == MergeFlagged \ NamedKeys(request.reset)
    IN  /\ mp.present <=> want # {}
        /\ mp.present => (Range(mp.value) = want /\ Len(mp.value) = Cardinality(want))
        /\ \A m, n \in 1..Len(mp.value) :
             m < n => Declared(mp.value[m]) < Declared(mp.value[n])

\* two flagged Merge props, one of them named in the reset header
C9_Witness ==
  /\ Rendered
  /\ Cardinality(MergeFlagged) = 2
  /\ Cardinality(MergeFlagged \cap NamedKeys(request.reset)) = 1
  /\ pageObject.mergeProps.present
  /\ Len(pageObject.mergeProps.value) = 1

(* ------------------------------- C10 ---------------------------------- *)

\* the share() calls, oldest first, that shared key k
SharesOf(k) == {i \in 1..Len(shareLog) : Has(shareLog[i], k)}

Latest(set) == CHOOSE i \in set : \A j \in set : j <= i

\* the shared entry in force for key k: the most recent share(), else the config
SharedEntry(k) ==
  IF SharesOf(k) # {} THEN Get(shareLog[Latest(SharesOf(k))], k)
  ELSE Get(config.sharedData, k)

\* C10: a key present both in the shared data and in the per-call props of a
\* render call is filtered and resolved as the per-call entry, so the page
\* object's props carry the per-call value; among the shared entries of one
\* key the most recent share() wins over earlier ones and over the config.
C10_PerCallShadowsShared ==
  /\ \A k \in Keys : Get(sharedData, k) = SharedEntry(k)
  /\ ObjKeys(sharedData) =
       ObjKeys(config.sharedData) \cup {k \in Keys : SharesOf(k) # {}}
  /\ Rendered =>
       \A k \in ResolvedKeys \cap CandidateKeys :
         /\ k \in ObjKeys(pageProps) =>
              /\ Get(propsToResolve, k) = Get(pageProps, k)
              /\ Resolved(k) = Data(PageVal)
         /\ k \notin ObjKeys(pageProps) =>
              /\ Get(propsToResolve, k) = SharedEntry(k)
              /\ Resolved(k) = Data(SharedEntry(k).val)

\* a key set in the config, shared twice and passed to render, which resolves it
C10_Witness ==
  /\ Rendered
  /\ \E k \in ObjKeys(pageProps) \cap ObjKeys(config.sharedData) :
       /\ Cardinality(SharesOf(k)) = 2
       /\ k \in ResolvedKeys
       /\ Get(sharedData, k).val = ShareVal(2)
       /\ Resolved(k) = Data(PageVal)

(* -------------------- vocabulary: redirect, location ------------------ *)

\* the redirect call was given a status as its first argument
StatusGiven == callArgs.statusOrUrl.type = "number"

\* the status the call's arguments amount to: the one given, or the default
GivenStatus == IF StatusGiven THEN callArgs.statusOrUrl.num ELSE 302

\* the URL the call's arguments amount to
GivenUrl == IF StatusGiven THEN callArgs.url.str ELSE callArgs.statusOrUrl.str

RedirectReturned == lastOp = "redirect" /\ outcome.status = "returned"

RedirectThrew == lastOp = "redirect" /\ outcome.status = "threw"

\* the calls of the adapter's redirect made so far
RedirectCalls(calls) == {i \in 1..Len(calls) : calls[i].fn = "redirect"}

\* the writes a step added to the response
Added(before, after) == SubSeq(after, Len(before) + 1, Len(after))

\* the places of a log of writes where a header of that name is set
HeaderAt(writes, name) ==
  {i \in 1..Len(writes) : writes[i].op = "setHeader" /\ writes[i].name = name}

StatusAt(writes) == {i \in 1..Len(writes) : writes[i].op = "statusCode"}

EndAt(writes) == {i \in 1..Len(writes) : writes[i].op = "end"}

(* ------------------------------- C11 ---------------------------------- *)

\* C11: the status a redirect hands to the adapter is 303 when the status its
\* arguments amount to is 302 and the request method is PUT, PATCH or DELETE,
\* and is that status unchanged otherwise.
C11_RedirectStatus ==
  RedirectReturned =>
    LET handed == adapterCalls[Len(adapterCalls)]
    IN  /\ handed.fn = "redirect"
        /\ handed.code =
             IF GivenStatus = 302 /\ request.method \in {"PUT", "PATCH", "DELETE"}
             THEN 303 ELSE GivenStatus

\* a redirect with a bare URL on a PUT request, and one with an explicit 301
C11_Witness ==
  /\ RedirectReturned
  /\ \/ ~StatusGiven /\ request.method = "PUT"
        /\ adapterCalls[Len(adapterCalls)].code = 303
     \/ StatusGiven /\ GivenStatus = 301 /\ request.method = "DELETE"

(* ------------------------------- C12 ---------------------------------- *)

\* C12: a redirect call whose arguments amount to no URL (a status without
\* a URL, or an empty URL) throws and leaves the response as it was: no
\* header, no status, no call of the adapter's redirect.
C12_NoUrlThrows ==
  [][(lastOp' = "redirect"
        /\ (IF callArgs'.statusOrUrl.type = "number"
            THEN callArgs'.url.str = <<>> ELSE callArgs'.statusOrUrl.str = <<>>))
     => /\ outcome'.status = "threw"
        /\ response' = response
        /\ adapterCalls' = adapterCalls]_vars

\* a redirect with a status and no URL has thrown after a location call
C12_Witness ==
  /\ RedirectThrew
  /\ StatusGiven /\ callArgs.url.type = "undefined"
  /\ Len(response) > 0

(* ------------------------------- C13 ---------------------------------- *)

\* C13: location(url) sets the external-location header to the URI-encoded
\* url and the status to 409, and does nothing else: it writes no Location
\* header, does not call the adapter's redirect and sends no body.
C13_LocationWrites ==
  [][lastOp' = "location" =>
       LET added == Added(response, response')
       IN  /\ added = <<HeaderSet("x-inertia-location", EncodeURI(callArgs'.statusOrUrl.str)),
                        StatusSet(409)>>
           /\ RedirectCalls(adapterCalls') = RedirectCalls(adapterCalls)
           /\ HeaderAt(added, "Location") = {}
           /\ EndAt(added) = {}
           /\ ~responseEnded']_vars

\* a location call with a URL that encodeURI changes
C13_Witness ==
  /\ lastOp = "location"
  /\ callArgs.statusOrUrl.str = <<"/", " ">>
  /\ response[Len(response)] = StatusSet(409)

(* ------------------------------- C20 ---------------------------------- *)

\* C20: a redirect call that does not throw sets the Vary header to the name
\* of the marker header before the adapter writes the status, the Location
\* header and the body, and calls the adapter's redirect exactly once.
C20_VaryBeforeRedirect ==
  [][(lastOp' = "redirect" /\ outcome'.status = "returned") =>
       LET added == Added(response, response')
       IN  /\ Cardinality(RedirectCalls(adapterCalls')) =
                Cardinality(RedirectCalls(adapterCalls)) + 1
           /\ \E v \in HeaderAt(added, "Vary") :
                /\ added[v].text = <<"x-inertia">>
                /\ \A i \in StatusAt(added) \cup HeaderAt(added, "Location")
                             \cup EndAt(added) : v < i
           /\ StatusAt(added) # {} /\ HeaderAt(added, "Location") # {}
           /\ EndAt(added) # {}]_vars

\* a redirect has returned with a body written after the Vary header
C20_Witness ==
  /\ RedirectReturned
  /\ request.method = "POST"
  /\ HeaderAt(response, "Vary") # {}
  /\ \E e \in EndAt(response) : response[e].text # <<>>

(* ------------------------- vocabulary: dispatch ----------------------- *)

RenderReturned == lastOp = "render" /\ outcome.status = "returned"

\* the request carries the marker header, whatever its value
MarkerPresent == request.inertia.present

\* the request carries the marker header with a value that is not empty
MarkerGiven == request.inertia.present /\ Len(request.inertia.value) > 0

\* a header of that name is set to that value somewhere before place e
SetBefore(name, value, e) ==
  \E h \in HeaderAt(response, name) : h < e /\ response[h].text = value

\* the response ends with the page object as JSON, the marker header set before
JsonSent ==
  \E e \in EndAt(response) :
    /\ response[e].text = <<"json">>
    /\ response[e].data.component = component
    /\ response[e].data.props = pageObject.props
    /\ SetBefore("Content-Type", <<"application/json">>, e)
    /\ SetBefore("x-inertia", <<"t", "r", "u", "e">>, e)

\* the response ends with an HTML document and the marker header is never set
HtmlSent ==
  /\ HeaderAt(response, "x-inertia") = {}
  /\ \E e \in EndAt(response) :
       /\ response[e].text # <<"json">>
       /\ "<body>" \in Range(response[e].text)
       /\ SetBefore("Content-Type", <<"text", "/", "html">>, e)

\* the pieces of the document sent
Document == response[CHOOSE e \in EndAt(response) : TRUE].text

\* the document holds the client-side root element with its data-page
HasRootElement ==
  \E i \in 1..Len(Document) :
    Document[i] \in {"<div id=\"app\" data-page></div>", "<div id=\"root\" data-page></div>"}

(* ------------------------------- C14 ---------------------------------- *)

\* C14 as claimed: a render call that completes sends exactly one response
\* body; if the request carries the marker header, the page object is sent
\* as JSON with the marker header set on the response before the body; if
\* it does not, an HTML document is sent and the marker header is never set.
C14_MarkerPresentJson ==
  RenderReturned =>
    /\ Cardinality(EndAt(response)) = 1
    /\ IF MarkerPresent THEN JsonSent ELSE HtmlSent

\* C14 as amended: the same, with the JSON answer for a marker header whose
\* value is not empty and the HTML answer for a marker header that is absent
\* or empty.
C14_MarkerGivenJson ==
  RenderReturned =>
    /\ Cardinality(EndAt(response)) = 1
    /\ IF MarkerGiven THEN JsonSent ELSE HtmlSent

\* a protocol request answered after a first render call on it failed
C14_Witness ==
  /\ RenderReturned
  /\ MarkerGiven
  /\ JsonSent
  /\ Len(response) > 3

(* ------------------------------- C15 ---------------------------------- *)

\* C15: when the page object of a protocol request cannot be JSON-encoded,
\* render does not throw: the response is ended with status 500 and a small
\* JSON error body.
C15_SerializationCaught ==
  (lastOp = "render" /\ MarkerGiven /\ ~Serializable(pageObject)) =>
    /\ outcome.status = "returned"
    /\ responseEnded
    /\ \E i \in StatusAt(response) : response[i].code = 500
    /\ EndAt(response) # {}

(* ------------------------------- C19 ---------------------------------- *)

\* C19: for a request without the marker header and with server rendering
\* enabled, the document sent is the layout with the head tag replaced by
\* the renderer's head fragments joined (or by nothing) and the body tag by
\* the renderer's body fragment, also when that fragment is empty; the
\* client-side root element is in the document only when server rendering
\* is disabled.
C19_ServerRendered ==
  (RenderReturned /\ ~MarkerGiven) =>
    /\ config.ssrEnabled =>
         Document = Replace(Replace(template, "<!-- @inertiaHead -->", Join(ssr.head)),
                            "<!-- @inertia -->",
                            IF ssr.body = "" THEN <<>> ELSE <<ssr.body>>)
    /\ HasRootElement => ~config.ssrEnabled

(* ------------------ vocabulary: render step by step ------------------- *)

\* the picked props whose promise has that state
TasksIn(state) == {i \in 1..Len(tasks) : tasks[i].state = state}

\* the place in settleOrder of the i-th picked prop, once it has settled
SettledAt(i) == CHOOSE j \in 1..Len(settleOrder) : settleOrder[j] = propsToResolve[i].key

\* the picked prop whose callback failed first
FirstRejected ==
  CHOOSE i \in TasksIn("rejected") :
    \A j \in TasksIn("rejected") : SettledAt(i) <= SettledAt(j)

\* nothing was written to the response and no writing method was called
ResponseUntouched == response = <<>> /\ adapterCalls = <<>> /\ ~responseEnded

(* ------------------------------- C16 ---------------------------------- *)

\* C16 as claimed: if the callback of any picked prop throws or rejects,
\* render rejects with that error, whatever the outcome of the sibling
\* props, and nothing has been written to the response.
C16_EveryFailureRejects ==
  \A i \in TasksIn("rejected") :
    /\ outcome = [status |-> "threw", error |-> "error of " \o propsToResolve[i].key[1]]
    /\ ResponseUntouched

\* C16 as amended: if the callback of any picked prop throws or rejects,
\* render rejects, with the error of the callback that failed first,
\* whatever the outcome of the sibling props, and nothing has been written
\* to the response.
C16_FirstFailureRejects ==
  TasksIn("rejected") # {} =>
    /\ outcome = [status |-> "threw",
                  error |-> "error of " \o propsToResolve[FirstRejected].key[1]]
    /\ ResponseUntouched

\* the second of two picked props failed after its sibling was fulfilled
C16_Witness ==
  /\ Len(tasks) = 2
  /\ tasks[1].state = "fulfilled"
  /\ tasks[2].state = "rejected"
  /\ outcome.status = "threw"

(* ------------------------------- C17 ---------------------------------- *)

\* C17: in whatever order the promises of the picked props settle, the
\* resolved props bind each picked key to the value of its own callback, and
\* the response is written only once every picked prop has settled.
C17_OrderIndependent ==
  /\ lastOp = "render" =>
       /\ ObjKeys(pageObject.props) = ObjKeys(propsToResolve)
       /\ Len(pageObject.props) = Len(propsToResolve)
       /\ \A k \in ObjKeys(propsToResolve) :
            Get(pageObject.props, k) = Data(Get(propsToResolve, k).val)
  /\ response # <<>> =>
       /\ Len(settleOrder) = Len(propsToResolve)
       /\ TasksIn("fulfilled") = 1..Len(propsToResolve)

\* two props with different values, the second settled first, and the
\* response written
C17_Witness ==
  /\ lastOp = "render"
  /\ responseEnded
  /\ Len(propsToResolve) = 2
  /\ settleOrder = <<propsToResolve[2].key, propsToResolve[1].key>>
  /\ propsToResolve[1].value.val # propsToResolve[2].value.val

(* ------------------------------- C18 ---------------------------------- *)

\* the shared entry for key k as of the first n share() calls
SharedEntryAt(k, n) ==
  LET shares == {i \in 1..n : Has(shareLog[i], k)}
  IN  IF shares # {} THEN Get(shareLog[Latest(shares)], k)
      ELSE Get(config.sharedData, k)

\* the keys shared by the first n share() calls or by the config
SharedKeysAt(n) ==
  ObjKeys(config.sharedData) \cup {k \in Keys : \E i \in 1..n : Has(shareLog[i], k)}

\* a render call has started
Started == lastOp = "render" \/ pc # "idle"

\* C18: a share() call made while a render call is suspended does not change
\* the props of that call's page object, which are those of the shared data
\* as it was when the call started; the keys shared before a render call
\* starts are in its candidate set.
C18_ShareDuringRender ==
  /\ Started =>
       /\ SharedKeysAt(sharesSeen) \subseteq ObjKeys(candidates)
       /\ ObjKeys(candidates) = SharedKeysAt(sharesSeen) \cup ObjKeys(pageProps)
  /\ lastOp = "render" =>
       \A k \in ResolvedKeys :
         Resolved(k) =
           Data((IF Has(pageProps, k) THEN Get(pageProps, k)
                 ELSE SharedEntryAt(k, sharesSeen)).val)

\* a key shared before the render call started and shared again while it was
\* suspended: the page object has the earlier value
C18_Witness ==
  /\ lastOp = "render"
  /\ \E k \in ResolvedKeys \ ObjKeys(pageProps) :
       /\ \E i \in 1..sharesSeen : Has(shareLog[i], k)
       /\ \E i \in (sharesSeen + 1)..Len(shareLog) : Has(shareLog[i], k)
       /\ Resolved(k) # Data(Get(sharedData, k).val)

(* ------------------------------- C21 ---------------------------------- *)

\* the keys the page object lists in mergeProps
MergeListed ==
  IF pageObject.mergeProps.present THEN Range(pageObject.mergeProps.value) ELSE {}

\* C21: in every page object, each key listed in mergeProps is a key of the
\* resolved props: a Merge prop with its flag set that the filter left out
\* of this response is not listed.
C21_MergeListedResolved ==
  Rendered => MergeListed \subseteq ResolvedKeys

(* ------------------------------- C22 ---------------------------------- *)

\* the page object has the history flags the render call found when it started
FlagsAsAtStart ==
  /\ pageObject.clearHistory = flagsSeen.clear
  /\ pageObject.encryptHistory = flagsSeen.encrypt

\* clearHistory is true in the page object only if clearHistory() was called
\* since the render call before this one ended
ClearNotSticky == pageObject.clearHistory => flagsSeen.requested

\* C22: the history flags of a page object are those in force when the
\* render call started, whatever clearHistory() or encryptHistory() calls
\* are made while it is suspended, and a clearHistory() made for one render
\* call does not make clearHistory true in the page object of a later one.
C22_HistoryFlags ==
  lastOp = "render" => (FlagsAsAtStart /\ ClearNotSticky)

(* ------------------------------- C23 ---------------------------------- *)

\* no value stored by a set() call was returned by get() or all() twice
DeliveredOnce == \A n \in DOMAIN flashDelivered : flashDelivered[n] <= 1

\* the call returned nothing for its key: undefined, or false
ReportedAbsent(call) == \A r \in call.returned : r.value.kind \in {"undefined", "false"}

\* what the claim says of one step, for the keys of a set
FlashStep(keys) ==
  /\ DeliveredOnce'
  /\ (flashLast'.op \in {"has", "peek", "get"} /\ flashLast'.key \in flashGone \cap keys)
       => ReportedAbsent(flashLast')
  /\ flashLast'.op \in {"get", "all"} =>
       \A k \in FlashKeys :
         (flash[k].own /\ flash'[k] # flash[k]) =>
           [key |-> k, value |-> [kind |-> "stored", id |-> flash[k].id]]
             \in flashLast'.returned
  /\ flashLast'.op = "get" =>
       \A k \in FlashKeys \ {flashLast'.key} : flash'[k] = flash[k]
  /\ flashLast'.op \in {"peek", "has"} => flash' = flash

\* C23: each flash value is delivered at most once: a value stored by set is
\* returned by get or all at most one time; after get(key), all() or clear()
\* the key is reported absent by has, peek and get until it is set again;
\* get and all remove only what they return, get leaving the other keys
\* untouched; peek and has never change the store.
C23_FlashOnce == [][FlashStep(FlashKeys)]_vars

\* the same for the keys that name no member of Object.prototype
FlashOnceOwnKeys == [][FlashStep(FlashKeys \ PrototypeKeys)]_vars

====
